---- MODULE Spec2Model ----
(***************************************************************************)
(* A model of gui/freeadmin/site.py: the FreeAdminSite registry             *)
(* (register, unregister, get_urls), the admin_view wrapper and the        *)
(* site-wide views alert_status, adminInterface and menu.                  *)
(***************************************************************************)
EXTENDS Integers, Sequences, FiniteSets, TLC

VARIABLES
    registry,     \* self._registry: a set of [key, value] entries (a dict)
    admins,       \* model -> the model's _admin attribute (add_to_class)
    nextId,       \* identity of the next handler instance to be created
    call,         \* the last registry call: its name, arguments and the registry before it
    result,       \* what the last register/unregister call returned or raised
    latest,       \* model -> id of the handler most recently instantiated for it
    urlpatterns   \* the table returned by the last call, when it was get_urls

regVars == <<registry, admins, nextId, call, result, latest, urlpatterns>>

VARIABLES
    req,          \* the request being handled
    target,       \* the route target the request was dispatched to
    chain,        \* the layers admin_view put around the view, innermost first
    stack,        \* the layers the request has still to enter, innermost first
    entered,      \* the layers the request has entered, in the order it entered them
    resp,         \* the response (or the exception) on its way out
    viewCalled,   \* whether the wrapped view was invoked for this request
    rpc           \* "idle", "run", "unwind" or "done"

reqVars == <<req, target, chain, stack, entered, resp, viewCalled, rpc>>

VARIABLES
    alerts,       \* alertPlugins.get_alerts(): the current alerts, in the order listed
    dismisseds,   \* the message ids dismissed on this node
    current,      \* the local variable current of alert_status
    apos,         \* how many alerts the loop of alert_status has gone through
    apc           \* "idle", "loop" or "done"

alertVars == <<alerts, dismisseds, current, apos, apc>>

VARIABLES
    settings,     \* the Settings table: the records' stg_wizardshown, in the order of id
    dash,         \* the last adminInterface call: what happened in it and what it reported
    reports       \* record id -> how often wizard = True was reported for it

dashVars == <<settings, dash, reports>>

VARIABLES
    navtree,      \* the navigation tree as navtree.generate left it
    mcall,        \* the last menu call: the user and where it failed, if it did
    mresp         \* the response of the last menu call

menuVars == <<navtree, mcall, mresp>>

vars == <<regVars, reqVars, alertVars, dashVars, menuVars>>

----------------------------------------------------------------------------
(* Bounds *)

MaxArgs == 2
MaxHandlers == 2

----------------------------------------------------------------------------
(* Models, handler classes and handler instances *)

Models == {1, 2}
NoModel == 0

\* model.__name__
ModelName(m) == "Model" \o ToString(m)

\* A class is the chain of its names, most derived first; None is the empty chain.
NoClass == <<>>
BaseFreeAdmin == <<"BaseFreeAdmin">>
CustomAdmin == <<"CustomAdmin">>

NoAdmin == [id |-> 0, cls |-> NoClass, model |-> NoModel, c |-> "None"]

\* admin_class(c=freeadmin, model=model, admin=self)
NewAdmin(id, cls, model, c) == [id |-> id, cls |-> cls, model |-> model, c |-> c]

ModelKey(m) == <<"model", m>>
AdminKey(obj) == <<"admin", obj.id>>

\* A dict assignment that keeps the entry a key already has (setdefault)
DictSetKeepsOld(d, k, v) ==
    IF \E e \in d : e.key = k THEN d ELSE d \cup {[key |-> k, value |-> v]}

\* self._registry[k] = v
DictSet(d, k, v) == {e \in d : e.key # k} \cup {[key |-> k, value |-> v]}

\* del self._registry[k]
DictDel(d, k) == {e \in d : e.key # k}

\* k in self._registry
DictHas(d, k) == \E e \in d : e.key = k

DictGet(d, k) == (CHOOSE e \in d : e.key = k).value

----------------------------------------------------------------------------
(* Arguments *)

SeqsUpTo(S, n) == UNION {[1..k -> S] : k \in 0..n}

\* model_or_iterable: None, one model class, or an iterable of model classes
ModelArgs ==
    {[kind |-> "none", seq |-> <<>>]}
    \cup {[kind |-> "one", seq |-> <<m>>] : m \in Models}
    \cup {[kind |-> "many", seq |-> s] : s \in SeqsUpTo(Models, MaxArgs)}

\* if isinstance(model_or_iterable, ModelBase): model_or_iterable = [model_or_iterable]
Normalize(arg) == arg.seq

NoResult == [status |-> "none", value |-> <<>>, exc |-> "None", model |-> NoModel]
Return(v) == [status |-> "return", value |-> v, exc |-> "None", model |-> NoModel]
Raise(e, m) == [status |-> "raise", value |-> <<>>, exc |-> e, model |-> m]

NoCall == [op |-> "none", arg |-> [kind |-> "none", seq |-> <<>>],
           admin_class |-> NoClass, pre |-> {}, created |-> <<>>]

----------------------------------------------------------------------------
(* register *)

\* The body of "for model in model_or_iterable" (lines 56-85), applied to the
\* models left to process.  st carries the registry, the _admin attributes, the
\* current binding of admin_class, the next instance identity and the instances
\* created so far.
RECURSIVE register_loop(_, _, _, _)
register_loop(models, freeadmin, options, st) ==
    IF models = <<>> THEN st
    ELSE LET model == Head(models)
             \* if options: admin_class = type("%sAdmin" % model.__name__, (admin_class,), options)
             cls == IF options THEN <<ModelName(model) \o "Admin">> \o st.cls ELSE st.cls
             admin_obj == NewAdmin(st.id, cls, model, freeadmin)
         IN register_loop(Tail(models), freeadmin, options,
                [reg |-> DictSet(st.reg, ModelKey(model), admin_obj),
                 adm |-> [st.adm EXCEPT ![model] = admin_obj],
                 cls |-> cls,
                 id |-> st.id + 1,
                 created |-> Append(st.created, admin_obj)])

\* if not admin_class: admin_class = BaseFreeAdmin
DefaultClass(admin_class) == IF admin_class = NoClass THEN BaseFreeAdmin ELSE admin_class

\* What register returns: admins.append(admin_obj) stands after the for loop,
\* inside the else branch, so it runs once, with the last binding of admin_obj;
\* with nothing iterated admin_obj is unbound.
register_result(arg, created) ==
    IF arg.kind = "none" THEN Return(<<>>)
    ELSE IF created = <<>> THEN Raise("UnboundLocalError", NoModel)
    ELSE Return(<<created[Len(created)]>>)

register(arg, admin_class, freeadmin, options) ==
    LET cls0 == DefaultClass(admin_class)
        st0 == [reg |-> registry, adm |-> admins, cls |-> cls0, id |-> nextId,
                created |-> <<>>]
        st == IF arg.kind = "none"
              THEN LET admin_obj == NewAdmin(nextId, cls0, NoModel, freeadmin)
                   IN [st0 EXCEPT !.reg = DictSet(registry, AdminKey(admin_obj), admin_obj),
                                  !.id = nextId + 1,
                                  !.created = <<admin_obj>>]
              ELSE register_loop(Normalize(arg), freeadmin, options, st0)
    IN /\ st.id - 1 <= MaxHandlers
       /\ registry' = st.reg
       /\ admins' = st.adm
       /\ nextId' = st.id
       /\ latest' = [m \in Models |->
                        LET mine == {i \in 1..Len(st.created) : st.created[i].model = m}
                        IN IF mine = {} THEN latest[m]
                           ELSE st.created[CHOOSE i \in mine : \A j \in mine : j <= i].id]
       /\ call' = [op |-> "register", arg |-> arg, admin_class |-> admin_class,
                   pre |-> registry, created |-> st.created]
       /\ result' = register_result(arg, st.created)
       /\ urlpatterns' = <<>>

----------------------------------------------------------------------------
(* unregister *)

\* An unregister loop that goes on past a model that is not registered, and
\* raises for it at the end
RECURSIVE unregister_loop_goes_on(_, _)
unregister_loop_goes_on(models, reg) ==
    IF models = <<>> THEN [reg |-> reg, res |-> Return(<<>>)]
    ELSE LET model == Head(models)
             rest == unregister_loop_goes_on(Tail(models), DictDel(reg, ModelKey(model)))
         IN IF ~DictHas(reg, ModelKey(model))
            THEN [reg |-> rest.reg, res |-> Raise("NotRegistered", model)]
            ELSE rest

\* "for model in model_or_iterable" of unregister (lines 99-104)
RECURSIVE unregister_loop(_, _)
unregister_loop(models, reg) ==
    IF models = <<>> THEN [reg |-> reg, res |-> Return(<<>>)]
    ELSE LET model == Head(models)
         IN IF ~DictHas(reg, ModelKey(model))
            THEN [reg |-> reg, res |-> Raise("NotRegistered", model)]
            ELSE unregister_loop(Tail(models), DictDel(reg, ModelKey(model)))

unregister(arg) ==
    LET out == unregister_loop(Normalize(arg), registry)
    IN /\ arg.kind # "none"
       /\ registry' = out.reg
       /\ result' = out.res
       /\ call' = [op |-> "unregister", arg |-> arg, admin_class |-> NoClass,
                   pre |-> registry, created |-> <<>>]
       /\ urlpatterns' = <<>>
       /\ UNCHANGED <<admins, nextId, latest>>

----------------------------------------------------------------------------
(* get_urls *)

\* model_admin.app_label and model_admin.module_name: the handler takes them from
\* its model's meta data, or from its configuration when it has no model.
app_label(h) == IF h.model # NoModel THEN "app" \o ToString(h.model) ELSE "freeadmin"
module_name(h) ==
    IF h.model # NoModel THEN "model" \o ToString(h.model) ELSE "page" \o ToString(h.id)

\* wrap(view, cacheable=False): a wrapper that calls self.admin_view(view, cacheable)
wrap(view) == [kind |-> "view", view |-> view, wrapped |-> TRUE, cacheable |-> FALSE,
               handler |-> 0]

\* include(model_admin.urls): the handler's own route table, taken as it is
include(h) == [kind |-> "include", view |-> "urls", wrapped |-> FALSE, cacheable |-> FALSE,
               handler |-> h.id]

\* url(regex, target, name=...)
url(regex, view, name) == [regex |-> regex, name |-> name, target |-> view]

\* The admin-site-wide views (lines 159-178)
UtilityRoutes ==
    << url("^$", wrap("adminInterface"), "index"),
       url("^middleware_token/$", wrap("middleware_token"), "freeadmin_middleware_token"),
       url("^help/$", wrap("help"), "freeadmin_help"),
       url("^menu\\.json/$", wrap("menu"), "freeadmin_menu"),
       url("^alert/status/$", wrap("alert_status"), "freeadmin_alert_status"),
       url("^alert/$", wrap("alert_detail"), "freeadmin_alert_detail") >>

\* r'^%s/%s/' % (model_admin.app_label, model_admin.module_name)
Prefix(h) == "^" \o app_label(h) \o "/" \o module_name(h) \o "/"

ModelRoute(h) == url(Prefix(h), include(h), "")

\* The orders in which self._registry.values() may be iterated
Orderings(S) ==
    {f \in [1..Cardinality(S) -> S] : \A i, j \in 1..Cardinality(S) : f[i] = f[j] => i = j}

\* A table that leaves out the handler iterated last
get_urls_table_short(vals) ==
    UtilityRoutes \o [i \in 1..(Len(vals) - 1) |-> ModelRoute(vals[i].value)]

\* urlpatterns after "for model_admin in self._registry.values()" run in the order vals
get_urls_table(vals) == UtilityRoutes \o [i \in 1..Len(vals) |-> ModelRoute(vals[i].value)]

get_urls ==
    /\ \E vals \in Orderings(registry) : urlpatterns' = get_urls_table(vals)
    /\ call' = [NoCall EXCEPT !.op = "get_urls"]
    /\ result' = NoResult
    /\ UNCHANGED <<registry, admins, nextId, latest>>

----------------------------------------------------------------------------
(* The registry's specification *)

AdminClasses == {NoClass, CustomAdmin}
FreeAdminConfs == {"None"}

RegInit ==
    /\ registry = {}
    /\ admins = [m \in Models |-> NoAdmin]
    /\ nextId = 1
    /\ call = NoCall
    /\ result = NoResult
    /\ latest = [m \in Models |-> 0]
    /\ urlpatterns = <<>>

Register ==
    \E arg \in ModelArgs, admin_class \in AdminClasses, freeadmin \in FreeAdminConfs,
       options \in BOOLEAN :
        /\ register(arg, admin_class, freeadmin, options)
        /\ UNCHANGED <<reqVars, alertVars, dashVars, menuVars>>

Unregister ==
    \E arg \in ModelArgs :
        /\ unregister(arg)
        /\ UNCHANGED <<reqVars, alertVars, dashVars, menuVars>>

GetUrls == get_urls /\ UNCHANGED <<reqVars, alertVars, dashVars, menuVars>>

RegNext == Register \/ Unregister \/ GetUrls

----------------------------------------------------------------------------
(* admin_view and the handling of a request *)

Users == [is_active : BOOLEAN, is_staff : BOOLEAN]
LogoutPath == "/account/logout/"
Paths == {LogoutPath, "/storage/"}
Requests == [user : Users, path : Paths, method : {"GET", "POST"}, csrf_ok : BOOLEAN]

NoRequest == [user |-> [is_active |-> FALSE, is_staff |-> FALSE], path |-> "",
              method |-> "GET", csrf_ok |-> FALSE]
NoTarget == [kind |-> "none", view |-> "", wrapped |-> FALSE, cacheable |-> FALSE,
             handler |-> 0, csrf_exempt |-> FALSE, gated |-> FALSE]

NoResponse ==
    [kind |-> "none", status |-> 0, location |-> "", exc |-> "", never_cache |-> FALSE]
ViewResponse ==
    [kind |-> "view", status |-> 200, location |-> "", exc |-> "", never_cache |-> FALSE]
HttpResponseRedirect(to) ==
    [kind |-> "redirect", status |-> 302, location |-> to, exc |-> "", never_cache |-> FALSE]
CsrfFailure ==
    [kind |-> "csrf_failure", status |-> 403, location |-> "", exc |-> "",
     never_cache |-> FALSE]
Exception(e) ==
    [kind |-> "exception", status |-> 500, location |-> "", exc |-> e, never_cache |-> FALSE]

\* A has_permission that does not ask for staff
has_permission_active_only(request) == request.user.is_active

\* return request.user.is_active and request.user.is_staff
has_permission(request) == request.user.is_active /\ request.user.is_staff

\* What an instance of FreeAdminSite has: the attribute __init__ sets and the
\* members of the class (lines 28-299).
SiteAttributes ==
    {"_registry", "register", "unregister", "has_permission", "admin_view", "get_urls",
     "urls", "adminInterface", "middleware_token", "help", "menu", "alert_status",
     "alert_detail"}

\* reverse(name): the path of a named route
reverse(name) == IF name = "account_logout" THEN LogoutPath
                 ELSE IF name = "index" THEN "/" ELSE "/account/login/"

\* The function inner of admin_view, up to the call of the view: the response it
\* returns or the exception it raises without calling the view, "call" when it
\* goes on to the view.  self.name and self.login are attribute look-ups on the
\* site.
inner(request) ==
    IF ~has_permission(request)
    THEN IF request.path = reverse("account_logout")
         THEN IF "name" \in SiteAttributes
              THEN [act |-> "respond", resp |-> HttpResponseRedirect(reverse("index"))]
              ELSE [act |-> "respond", resp |-> Exception("AttributeError")]
         ELSE IF "login" \in SiteAttributes
              THEN [act |-> "respond", resp |-> HttpResponseRedirect(reverse("login"))]
              ELSE [act |-> "respond", resp |-> Exception("AttributeError")]
    ELSE [act |-> "call", resp |-> NoResponse]

\* admin_view with the two decorators applied the other way round
admin_view_csrf_inside(cacheable, csrf_exempt) ==
    <<"inner">>
    \o (IF ~csrf_exempt THEN <<"csrf_protect">> ELSE <<>>)
    \o (IF ~cacheable THEN <<"never_cache">> ELSE <<>>)

\* admin_view(view, cacheable): inner, then never_cache(inner) unless cacheable,
\* then csrf_protect(inner) unless the view is csrf_exempt; each decorator wraps
\* what the one before returned.
admin_view(cacheable, csrf_exempt) ==
    <<"inner">>
    \o (IF ~cacheable THEN <<"never_cache">> ELSE <<>>)
    \o (IF ~csrf_exempt THEN <<"csrf_protect">> ELSE <<>>)

\* csrf_protect rejects, before it calls what it wraps, a request of an unsafe
\* method that carries no valid token
csrf_rejects(request) == request.method = "POST" /\ ~request.csrf_ok

\* A request arrives for a route of the table, or for some view wrapped with
\* admin_view directly; calling the wrapper calls the outermost layer.
Dispatch(request, tgt, csrf_exempt, gated) ==
    /\ rpc = "idle"
    /\ req' = request
    /\ target' = [kind |-> tgt.kind, view |-> tgt.view, wrapped |-> tgt.wrapped,
                  cacheable |-> tgt.cacheable, handler |-> tgt.handler,
                  csrf_exempt |-> csrf_exempt, gated |-> gated]
    /\ chain' = IF tgt.wrapped \/ (tgt.kind = "include" /\ gated)
                THEN admin_view(tgt.cacheable, csrf_exempt) ELSE <<>>
    /\ stack' = chain'
    /\ entered' = <<>>
    /\ resp' = NoResponse
    /\ viewCalled' = FALSE
    /\ rpc' = "run"
    /\ UNCHANGED <<regVars, alertVars, dashVars, menuVars>>

\* The request enters the outermost layer it has not entered yet
EnterLayer ==
    /\ rpc = "run"
    /\ stack # <<>>
    /\ LET layer == stack[Len(stack)]
           rest == SubSeq(stack, 1, Len(stack) - 1)
       IN /\ entered' = Append(entered, layer)
          /\ IF layer = "csrf_protect" /\ csrf_rejects(req)
             THEN /\ resp' = CsrfFailure
                  /\ rpc' = "unwind"
                  /\ stack' = rest
             ELSE IF layer = "inner" /\ inner(req).act = "respond"
             THEN /\ resp' = inner(req).resp
                  /\ rpc' = "unwind"
                  /\ stack' = rest
             ELSE /\ stack' = rest
                  /\ UNCHANGED <<resp, rpc>>
    /\ UNCHANGED <<req, target, chain, viewCalled>>
    /\ UNCHANGED <<regVars, alertVars, dashVars, menuVars>>

\* return view(request, *args, **kwargs)
CallView ==
    /\ rpc = "run"
    /\ stack = <<>>
    /\ viewCalled' = TRUE
    /\ resp' = ViewResponse
    /\ rpc' = "unwind"
    /\ UNCHANGED <<req, target, chain, stack, entered>>
    /\ UNCHANGED <<regVars, alertVars, dashVars, menuVars>>

\* The response passes the entered layers on its way out; never_cache marks a
\* response it is given, an exception passes it untouched.
Unwind ==
    /\ rpc = "unwind"
    /\ resp' = [resp EXCEPT !.never_cache =
                   resp.kind # "exception"
                   /\ \E i \in 1..Len(entered) : entered[i] = "never_cache"]
    /\ rpc' = "done"
    /\ UNCHANGED <<req, target, chain, stack, entered, viewCalled>>
    /\ UNCHANGED <<regVars, alertVars, dashVars, menuVars>>

\* The response is sent; the next request finds nothing of this one
Respond ==
    /\ rpc = "done"
    /\ req' = NoRequest
    /\ target' = NoTarget
    /\ chain' = <<>>
    /\ stack' = <<>>
    /\ entered' = <<>>
    /\ resp' = NoResponse
    /\ viewCalled' = FALSE
    /\ rpc' = "idle"
    /\ UNCHANGED <<regVars, alertVars, dashVars, menuVars>>

ReqIdle ==
    /\ req = NoRequest
    /\ target = NoTarget
    /\ chain = <<>>
    /\ stack = <<>>
    /\ entered = <<>>
    /\ resp = NoResponse
    /\ viewCalled = FALSE
    /\ rpc = "idle"

\* The site as the URL configuration finds it: the registrations of start-up
\* done, and site.urls evaluated.
SiteStarted ==
    \E models \in SeqsUpTo(Models, MaxArgs) :
        LET st == register_loop(models, "None", FALSE,
                      [reg |-> {}, adm |-> [m \in Models |-> NoAdmin], cls |-> BaseFreeAdmin,
                       id |-> 1, created |-> <<>>])
        IN /\ st.id - 1 <= MaxHandlers
           /\ registry = st.reg
           /\ admins = st.adm
           /\ nextId = st.id
           /\ latest = [m \in Models |-> admins[m].id]
           /\ call = [NoCall EXCEPT !.op = "get_urls"]
           /\ result = NoResult
           /\ \E vals \in Orderings(registry) : urlpatterns = get_urls_table(vals)

\* A view wrapped with admin_view outside get_urls
OtherTargets ==
    {[kind |-> "view", view |-> "other", wrapped |-> TRUE, cacheable |-> c, handler |-> 0] :
        c \in BOOLEAN}

Request ==
    \E request \in Requests, csrf_exempt \in BOOLEAN, gated \in BOOLEAN :
        \E tgt \in {urlpatterns[i].target : i \in 1..Len(urlpatterns)} \cup OtherTargets :
            \* the views of get_urls are not marked csrf_exempt; what a handler's
            \* own routes do is the handler's matter
            /\ (tgt.kind = "view" /\ tgt.view # "other") => ~csrf_exempt
            /\ tgt.kind # "include" => ~gated
            /\ Dispatch(request, tgt, csrf_exempt, gated)

ReqNext == Request \/ EnterLayer \/ CallView \/ Unwind \/ Respond

----------------------------------------------------------------------------
(* alert_status *)

MaxAlerts == 3

Levels == {"OK", "WARN", "CRIT"}
AlertIds == {"A1", "A2"}
Alerts == [id : AlertIds, level : Levels]

\* A loop body that does not skip dismissed alerts
alert_step_counts_dismissed(alert, dismissed, cur) ==
    LET status == alert.level
    IN IF \/ (status = "WARN" /\ cur = "OK")
          \/ (status = "CRIT" /\ cur \in {"OK", "WARN"})
       THEN status
       ELSE cur

\* The body of "for alert in alerts" (lines 278-287): the value of current after it
alert_step(alert, dismissed, cur) ==
    IF alert.id \in dismissed
    THEN cur
    ELSE LET status == alert.level
         IN IF \/ (status = "WARN" /\ cur = "OK")
               \/ (status = "CRIT" /\ cur \in {"OK", "WARN"})
            THEN status
            ELSE cur

\* dismisseds and alerts are read, current = 'OK'
AlertStatusBegin ==
    /\ apc = "idle"
    /\ \E as \in SeqsUpTo(Alerts, MaxAlerts), ds \in SUBSET AlertIds :
        /\ alerts' = as
        /\ dismisseds' = ds
    /\ current' = "OK"
    /\ apos' = 0
    /\ apc' = "loop"
    /\ UNCHANGED <<regVars, reqVars, dashVars, menuVars>>

AlertStatusLoop ==
    /\ apc = "loop"
    /\ apos < Len(alerts)
    /\ current' = alert_step(alerts[apos + 1], dismisseds, current)
    /\ apos' = apos + 1
    /\ UNCHANGED <<alerts, dismisseds, apc>>
    /\ UNCHANGED <<regVars, reqVars, dashVars, menuVars>>

\* return HttpResponse(current)
AlertStatusReturn ==
    /\ apc = "loop"
    /\ apos = Len(alerts)
    /\ apc' = "done"
    /\ UNCHANGED <<alerts, dismisseds, current, apos>>
    /\ UNCHANGED <<regVars, reqVars, dashVars, menuVars>>

AlertStatusEnd ==
    /\ apc = "done"
    /\ alerts' = <<>>
    /\ dismisseds' = {}
    /\ current' = "OK"
    /\ apos' = 0
    /\ apc' = "idle"
    /\ UNCHANGED <<regVars, reqVars, dashVars, menuVars>>

AlertIdle ==
    /\ alerts = <<>>
    /\ dismisseds = {}
    /\ current = "OK"
    /\ apos = 0
    /\ apc = "idle"

AlertNext == AlertStatusBegin \/ AlertStatusLoop \/ AlertStatusReturn \/ AlertStatusEnd

----------------------------------------------------------------------------
(* adminInterface: the wizard flag *)

MaxSettings == 3

\* Settings.objects.all().order_by('-id')[0]: the index of the latest record
LatestRecord(table) == Len(table)

\* The try block without the save of the flag
wizard_block_forgets_save(table, lookup_fails, save_fails) ==
    IF lookup_fails \/ table = <<>>
    THEN [wizard |-> FALSE, table |-> table]
    ELSE [wizard |-> ~table[LatestRecord(table)], table |-> table]

\* The try block of lines 215-222: what wizard ends as and what the table holds.
\* The look-up raises when it fails or when there is no record; save may raise;
\* the except clause covers both and sets wizard to False.
wizard_block(table, lookup_fails, save_fails) ==
    IF lookup_fails \/ table = <<>>
    THEN [wizard |-> FALSE, table |-> table]
    ELSE LET stg_wizardshown == table[LatestRecord(table)]
         IN IF stg_wizardshown = FALSE
            THEN IF save_fails
                 THEN [wizard |-> FALSE, table |-> table]
                 ELSE [wizard |-> TRUE,
                       table |-> [table EXCEPT ![LatestRecord(table)] = TRUE]]
            ELSE [wizard |-> ~stg_wizardshown, table |-> table]

NoDash == [op |-> "none", override |-> FALSE, lookup_fails |-> FALSE, save_fails |-> FALSE,
           latest |-> 0, was_shown |-> TRUE, rendered |-> FALSE, wizard |-> FALSE]

\* adminInterface(request): an index view of an extension, when there is one, is
\* returned as it is; otherwise the context is gathered and the page rendered.
adminInterface(override, lookup_fails, save_fails) ==
    LET out == wizard_block(settings, lookup_fails, save_fails)
        latestId == LatestRecord(settings)
    IN /\ dash' = [op |-> "adminInterface", override |-> override,
                   lookup_fails |-> (~override /\ lookup_fails),
                   save_fails |-> (~override /\ save_fails),
                   latest |-> latestId,
                   was_shown |-> IF latestId = 0 THEN TRUE ELSE settings[latestId],
                   rendered |-> ~override,
                   wizard |-> (~override /\ out.wizard)]
       /\ settings' = IF override THEN settings ELSE out.table
       /\ reports' = IF ~override /\ out.wizard
                     THEN [reports EXCEPT ![latestId] = @ + 1]
                     ELSE reports

AdminInterface ==
    /\ \E override \in BOOLEAN, lookup_fails \in BOOLEAN, save_fails \in BOOLEAN :
        adminInterface(override, lookup_fails, save_fails)
    /\ \A i \in DOMAIN reports : reports'[i] <= 2
    /\ UNCHANGED <<regVars, reqVars, alertVars, menuVars>>

\* A new Settings record is stored (the initial one, or a later one)
NewSettings ==
    /\ Len(settings) < MaxSettings
    /\ \E shown \in BOOLEAN : settings' = Append(settings, shown)
    /\ reports' = [i \in 1..(Len(settings) + 1) |-> IF i <= Len(settings) THEN reports[i] ELSE 0]
    /\ dash' = NoDash
    /\ UNCHANGED <<regVars, reqVars, alertVars, menuVars>>

DashIdle ==
    /\ settings = <<>>
    /\ dash = NoDash
    /\ reports = <<>>

DashNext == AdminInterface \/ NewSettings

----------------------------------------------------------------------------
(* menu *)

MaxTree == 2

MenuUsers == {"root", "operator"}
Nodes == {1, 2, 3}
Trees == SeqsUpTo(Nodes, MaxTree)

\* navtree.dijitTree(user): the part of the tree the user may see
RECURSIVE dijitTree(_, _)
dijitTree(user, tree) ==
    IF tree = <<>> THEN <<>>
    ELSE IF user = "root" \/ Head(tree) # 1
         THEN <<Head(tree)>> \o dijitTree(user, Tail(tree))
         ELSE dijitTree(user, Tail(tree))

\* json.dumps of a list of nodes
RECURSIVE dumps_items(_)
dumps_items(tree) ==
    IF tree = <<>> THEN ""
    ELSE IF Len(tree) = 1 THEN ToString(Head(tree))
         ELSE ToString(Head(tree)) \o ", " \o dumps_items(Tail(tree))

dumps(tree) == "[" \o dumps_items(tree) \o "]"

HttpResponse(data) == [status |-> 200, body |-> data]
ServerError == [status |-> 500, body |-> "error"]

\* A menu view that lets the failure out
menu_response_propagates(user, tree, fail) ==
    IF fail = "none" THEN HttpResponse(dumps(dijitTree(user, tree))) ELSE ServerError

\* Lines 256-268: data is the serialized tree, or "" when anything in the try
\* block raised an Exception; the response is built after the try statement.
menu_response(user, tree, fail) ==
    LET data == IF fail = "none" THEN dumps(dijitTree(user, tree)) ELSE ""
    IN HttpResponse(data)

MenuFailures == {"none", "generate", "dijitTree", "dumps"}

NoMenuCall == [op |-> "none", user |-> "", fail |-> "none"]

\* menu(request): navtree.generate(request) leaves a tree (whatever it got to
\* when it fails), then the user's part of it is serialized.
menu(user, generated, fail) ==
    /\ navtree' = generated
    /\ mcall' = [op |-> "menu", user |-> user, fail |-> fail]
    /\ mresp' = menu_response(user, generated, fail)

Menu ==
    /\ \E user \in MenuUsers, generated \in Trees, fail \in MenuFailures :
        menu(user, generated, fail)
    /\ UNCHANGED <<regVars, reqVars, alertVars, dashVars>>

MenuIdle ==
    /\ navtree = <<>>
    /\ mcall = NoMenuCall
    /\ mresp = [status |-> 0, body |-> ""]

MenuNext == Menu

----------------------------------------------------------------------------
(* Claims about the registry *)

Registered(m) == DictHas(registry, ModelKey(m))

\* The positions of an unregister call's arguments at which the model is not in
\* the registry: never registered, or already removed by an earlier position.
MissingAt(args, pre) ==
    {k \in 1..Len(args) :
        \/ ~DictHas(pre, ModelKey(args[k]))
        \/ \E i \in 1..(k - 1) : args[i] = args[k]}

KeysBefore(args, k) == {ModelKey(args[i]) : i \in 1..(k - 1)}

\* C2: unregister removes the given models in order up to the first one that is
\* not registered, raises NotRegistered naming that model and stops: the models
\* before it are removed, every other registry entry is as it was before the call.
C2_UnregisterStopsAtFirstMissing ==
    call.op = "unregister" =>
        LET args == call.arg.seq
            miss == MissingAt(args, call.pre)
        IN IF miss = {}
           THEN /\ result.status = "return"
                /\ registry = {e \in call.pre : e.key \notin KeysBefore(args, Len(args) + 1)}
           ELSE LET k == CHOOSE i \in miss : \A j \in miss : i <= j
                IN /\ result.status = "raise"
                   /\ result.exc = "NotRegistered"
                   /\ result.model = args[k]
                   /\ registry = {e \in call.pre : e.key \notin KeysBefore(args, k)}

C2_Witness ==
    /\ call.op = "unregister"
    /\ result.status = "raise"
    /\ Len(call.arg.seq) = 2
    /\ result.model = call.arg.seq[2]
    /\ registry # call.pre
    /\ registry # {}

\* C3: register returns the list of the handler instances created in the call,
\* one per model given (the single handler for a registration without a model).
C3_ReturnsEveryCreatedHandler ==
    call.op = "register" =>
        /\ result.status = "return"
        /\ result.value = call.created

\* C4: every registered model has exactly one registry entry, that entry is the
\* handler instance most recently created for the model, the model's _admin
\* attribute is that same instance, and a registration without a handler class
\* creates instances of the default handler type.
C4_RegistryHoldsLatestHandler ==
    /\ \A m \in Models :
        Registered(m) =>
            /\ Cardinality({e \in registry : e.key = ModelKey(m)}) = 1
            /\ DictGet(registry, ModelKey(m)).id = latest[m]
            /\ DictGet(registry, ModelKey(m)).model = m
            /\ admins[m] = DictGet(registry, ModelKey(m))
    /\ call.op = "register" =>
        /\ \A i \in 1..Len(call.arg.seq) : Registered(call.arg.seq[i])
        /\ call.admin_class = NoClass =>
              \A i \in 1..Len(call.created) :
                  call.created[i].cls[Len(call.created[i].cls)] = "BaseFreeAdmin"

C4_Witness ==
    /\ call.op = "register"
    /\ call.admin_class = NoClass
    /\ \E m \in Models :
        /\ DictHas(call.pre, ModelKey(m))
        /\ \E i \in 1..Len(call.arg.seq) : call.arg.seq[i] = m
        /\ DictGet(registry, ModelKey(m)).id > DictGet(call.pre, ModelKey(m)).id

\* The route prefix of model m
PrefixOfModel(m) == "^app" \o ToString(m) \o "/model" \o ToString(m) \o "/"

\* C9: the table of get_urls is the six site-wide routes followed by one route
\* per registry entry: the prefix of a registered model is there exactly once,
\* the prefix of a model that is not registered is not there.
C9_OnePrefixPerRegisteredModel ==
    call.op = "get_urls" =>
        /\ Len(urlpatterns) = 6 + Cardinality(registry)
        /\ [i \in 1..6 |-> urlpatterns[i].name] =
              <<"index", "freeadmin_middleware_token", "freeadmin_help", "freeadmin_menu",
                "freeadmin_alert_status", "freeadmin_alert_detail">>
        /\ \A i \in 1..6 : urlpatterns[i].target.kind = "view"
        /\ \A i \in 7..Len(urlpatterns) : urlpatterns[i].target.kind = "include"
        /\ \A m \in Models :
              Cardinality({i \in 1..Len(urlpatterns) : urlpatterns[i].regex = PrefixOfModel(m)})
                  = IF Registered(m) THEN 1 ELSE 0

C9_Witness ==
    /\ call.op = "get_urls"
    /\ Len(urlpatterns) > 6
    /\ \E m \in Models : ~Registered(m) /\ latest[m] > 0
    /\ \E m \in Models : Registered(m)

----------------------------------------------------------------------------
(* Claims about admin_view and the routes *)

Authorized == req.user.is_active /\ req.user.is_staff

Entered(layer) == \E i \in 1..Len(entered) : entered[i] = layer

Has(seq, x) == \E i \in 1..Len(seq) : seq[i] = x

\* C1: a request that reaches the authorization check of admin_view with a user
\* who is not both active and staff never reaches the view and is answered with a
\* redirect, to the index page on the logout path and to the login flow
\* elsewhere; with a user who is both, the view is called and its response returned.
C1_UnauthorizedIsRedirected ==
    (rpc = "done" /\ Entered("inner")) =>
        IF ~Authorized
        THEN /\ ~viewCalled
             /\ resp.kind = "redirect"
             /\ resp.location = IF req.path = LogoutPath THEN "/" ELSE "/account/login/"
        ELSE /\ viewCalled
             /\ resp.kind = "view"

FromTable == target.kind = "include" \/ (target.kind = "view" /\ target.view # "other")

Rank(layer) == IF layer = "inner" THEN 1 ELSE IF layer = "never_cache" THEN 2 ELSE 3

\* C10 as stated: a request passes the layers in the order authorization check,
\* no-cache, CSRF protection.
C10_RequestPassesLayersInOrder ==
    \A i, j \in 1..Len(entered) : i < j => Rank(entered[i]) < Rank(entered[j])

\* C10 as amended: admin_view applies the layers in the order authorization
\* check, no-cache (iff not cacheable), CSRF protection (iff the view is not
\* csrf_exempt), each around the one before; a request therefore enters them from
\* the outside in: CSRF protection, no-cache, authorization check.
C10_LayersWrapInOrder ==
    chain # <<>> =>
        /\ chain[1] = "inner"
        /\ Has(chain, "never_cache") <=> ~target.cacheable
        /\ Has(chain, "csrf_protect") <=> ~target.csrf_exempt
        /\ \A i, j \in 1..Len(chain) : i < j => Rank(chain[i]) < Rank(chain[j])
        /\ Len(entered) <= Len(chain)
        /\ \A i \in 1..Len(entered) : entered[i] = chain[Len(chain) + 1 - i]
        /\ rpc = "done" => (Entered("inner") \/ resp.kind = "csrf_failure")

C10_Witness ==
    /\ rpc = "done"
    /\ entered = <<"csrf_protect", "never_cache", "inner">>
    /\ viewCalled
    /\ resp.never_cache

----------------------------------------------------------------------------
(* Claims about the views *)

Shown(level) == \E i \in 1..Len(alerts) : alerts[i].level = level /\ alerts[i].id \notin dismisseds

\* C5: alert_status returns the highest level (OK < WARN < CRIT) among the alerts
\* that are not dismissed, OK when there is none, whatever the order of the alerts.
C5_HighestLevelNotDismissed ==
    apc = "done" =>
        current = IF Shown("CRIT") THEN "CRIT" ELSE IF Shown("WARN") THEN "WARN" ELSE "OK"

C5_Witness ==
    /\ apc = "done"
    /\ alerts = <<[id |-> "A1", level |-> "WARN"], [id |-> "A2", level |-> "CRIT"]>>
    /\ dismisseds = {"A2"}
    /\ current = "WARN"

\* C6 as stated: with the latest record unshown and no index override the call
\* reports wizard = True and the flag is stored as shown.
C6_UnshownIsReportedAndStored ==
    (dash.op = "adminInterface" /\ ~dash.override /\ ~dash.lookup_fails
        /\ dash.latest > 0 /\ ~dash.was_shown) =>
        (dash.wizard /\ settings[dash.latest])

\* C6 as amended: with the latest record unshown, no index override, and neither
\* the look-up nor the save raising, the call reports wizard = True and the flag
\* is stored as shown; when the look-up or the save raises, wizard is False (and
\* after a failed save the flag is still unshown); wizard = True is reported at
\* most once for a record.
C6_WizardReportedOncePerRecord ==
    /\ \A i \in DOMAIN reports : reports[i] <= 1
    /\ (dash.op = "adminInterface" /\ dash.rendered) =>
        /\ (~dash.lookup_fails /\ ~dash.save_fails /\ dash.latest > 0 /\ ~dash.was_shown)
              => (dash.wizard /\ settings[dash.latest])
        /\ (dash.lookup_fails \/ dash.latest = 0) => ~dash.wizard
        /\ (~dash.lookup_fails /\ dash.latest > 0 /\ ~dash.was_shown /\ dash.save_fails)
              => (~dash.wizard /\ ~settings[dash.latest])
        /\ (dash.latest > 0 /\ dash.was_shown) => ~dash.wizard
        /\ dash.wizard => settings[dash.latest]

C6_Witness ==
    /\ dash.op = "adminInterface"
    /\ dash.rendered
    /\ dash.latest > 0
    /\ dash.was_shown
    /\ ~dash.wizard
    /\ reports[dash.latest] = 1

\* C7: menu answers with a success response in every case: the body is the empty
\* string when generating or serializing the tree failed, and the serialized tree
\* of the user otherwise.
C7_MenuNeverRaises ==
    mcall.op = "menu" =>
        /\ mresp.status = 200
        /\ mcall.fail # "none" => mresp.body = ""
        /\ mcall.fail = "none" =>
              /\ mresp.body = dumps(dijitTree(mcall.user, navtree))
              /\ mresp.body # ""

C7_Witness ==
    /\ mcall.op = "menu"
    /\ mcall.fail = "generate"
    /\ navtree # <<>>
    /\ mresp = [status |-> 200, body |-> ""]

----------------------------------------------------------------------------
(* Specifications *)

InitRegistry == RegInit /\ ReqIdle /\ AlertIdle /\ DashIdle /\ MenuIdle

SpecRegistry == InitRegistry /\ [][RegNext]_vars

InitRequest == SiteStarted /\ ReqIdle /\ AlertIdle /\ DashIdle /\ MenuIdle

SpecRequest == InitRequest /\ [][ReqNext]_vars

InitAlert == RegInit /\ ReqIdle /\ AlertIdle /\ DashIdle /\ MenuIdle

SpecAlert == InitAlert /\ [][AlertNext]_vars

InitDashboard == RegInit /\ ReqIdle /\ AlertIdle /\ DashIdle /\ MenuIdle

SpecDashboard == InitDashboard /\ [][DashNext]_vars

InitMenu == RegInit /\ ReqIdle /\ AlertIdle /\ DashIdle /\ MenuIdle

SpecMenu == InitMenu /\ [][MenuNext]_vars

====
